---- MODULE Spec2Model ----
(***************************************************************************)
(* Built-in colour functions of the evaluator                              *)
(* (lib/visitor/evaluator/bifs.js): arity dispatch, the type assertion     *)
(* gate, and the construction of result nodes.                             *)
(*                                                                         *)
(* Magnitudes are reals in the program; here they are fixed-point          *)
(* integers counting 1/Denom, so that 1 is Denom and 0.5 is Denom \div 2.  *)
(***************************************************************************)
EXTENDS Integers, Sequences, FiniteSets, TLC

VARIABLES pc, fn, args, log, result, acc, chain

vars == <<pc, fn, args, log, result, acc, chain>>

\* Resolution of the fixed-point magnitudes.
Denom == 2
\* The parameters the constructors declare: function(h,s,l,a), function(r,g,b,a).
Params == 4
\* Longest chain of calls in which each takes the colour the one before returned.
MaxChain == 1

Fix(n) == n * Denom

(***************************************************************************)
(* Nodes                                                                   *)
(***************************************************************************)
Unit(val, type) == [kind |-> "Unit", val |-> val, type |-> type]
Color(r, g, b, a) == [kind |-> "Color", r |-> r, g |-> g, b |-> b, a |-> a]
HSLA(h, s, l, a) == [kind |-> "HSLA", h |-> h, s |-> s, l |-> l, a |-> a]
String(val) == [kind |-> "String", val |-> val]
\* A parameter for which the caller supplied no argument.
Undefined == [kind |-> "undefined"]

\* Math.round: the nearest integer, halves upwards.
Round(v) == ((2 * v + Denom) \div (2 * Denom)) * Denom

Max2(x, y) == IF x >= y THEN x ELSE y
Min2(x, y) == IF x <= y THEN x ELSE y

(***************************************************************************)
(* The projections of the node library (nodes.Color / nodes.HSLA).         *)
(***************************************************************************)
\* Color#hsl: hue in [0,360), saturation and lightness in percent.
ColorHsl(c) ==
    LET max == Max2(c.r, Max2(c.g, c.b))
        min == Min2(c.r, Min2(c.g, c.b))
        d == max - min
        sum == max + min
        full == 2 * Fix(255)
        l == (sum * 100) \div (2 * 255)
        s == IF d = 0 THEN 0
             ELSE IF sum < Fix(255)
                  THEN (IF sum > 0 THEN (d * Fix(100)) \div sum ELSE 0)
                  ELSE (IF full - sum > 0 THEN (d * Fix(100)) \div (full - sum) ELSE 0)
        h == IF d = 0 THEN 0
             ELSE IF max = c.r THEN (60 * Denom * (c.g - c.b)) \div d
             ELSE IF max = c.g THEN (60 * Denom * (c.b - c.r)) \div d + Fix(120)
             ELSE (60 * Denom * (c.r - c.g)) \div d + Fix(240)
    IN HSLA(h % Fix(360), s, l, c.a)

\* The CSS3 hue helper, on percentages m1, m2 and a hue in fixed-point degrees.
HueToChannel(m1, m2, h0) ==
    LET h == h0 % Fix(360)
    IN IF h < Fix(60) THEN m1 + ((m2 - m1) * h) \div Fix(60)
       ELSE IF h < Fix(180) THEN m2
       ELSE IF h < Fix(240) THEN m1 + ((m2 - m1) * (Fix(240) - h)) \div Fix(60)
       ELSE m1

\* HSLA#rgba: integral channels 0..255, alpha carried through.
HslaRgba(c) ==
    LET m2 == IF c.l <= Fix(50)
              THEN (c.l * (c.s + Fix(100))) \div Fix(100)
              ELSE c.l + c.s - (c.l * c.s) \div Fix(100)
        m1 == 2 * c.l - m2
        ch(h) == Round((HueToChannel(m1, m2, h) * 255) \div 100)
    IN Color(ch(c.h + Fix(120)), ch(c.h), ch(c.h - Fix(120)), c.a)

\* color.rgba: a Color is its own RGB projection.
RgbaOf(c) == IF c.kind = "Color" THEN c ELSE HslaRgba(c)
\* color.hsl, read by hsla(color) and hsl(color) after their assertion.
HslOf(c) == ColorHsl(c)

(***************************************************************************)
(* The type assertion gate (utils.assertType / utils.assertColor).         *)
(***************************************************************************)
ColorLike == {"Color", "HSLA"}

\* The variants a requirement accepts.
Accepts(req) == IF req = "Color|HSLA" THEN ColorLike ELSE {req}

Satisfies(node, req) == node.kind \in Accepts(req)

TypeMismatch(pos, req, node) ==
    [kind |-> "TypeMismatch", pos |-> pos, expected |-> req, actual |-> node.kind]

Returned(node) == [kind |-> "node", node |-> node]

\* The i-th parameter of a call: undefined when fewer arguments were given.
Arg(argv, i) == IF i <= Len(argv) THEN argv[i] ELSE Undefined

Chk(pos, req) == [pos |-> pos, req |-> req]

\* The assertions of a branch that run, in order, up to the first that fails.
RECURSIVE Executed(_, _)
Executed(checks, argv) ==
    IF checks = <<>> THEN <<>>
    ELSE IF Satisfies(Arg(argv, Head(checks).pos), Head(checks).req)
         THEN <<Head(checks)>> \o Executed(Tail(checks), argv)
         ELSE <<Head(checks)>>

\* A branch of a builtin: its assertions in source order, then its result.
Branch(checks, argv, node) ==
    LET ran == Executed(checks, argv)
        last == ran[Len(ran)]
    IN IF ran # <<>> /\ ~Satisfies(Arg(argv, last.pos), last.req)
       THEN [log |-> ran, out |-> TypeMismatch(last.pos, last.req, Arg(argv, last.pos))]
       ELSE [log |-> ran, out |-> Returned(node)]

AllUnits == [i \in 1..Params |-> Chk(i, "Unit")]

(***************************************************************************)
(* Faulty variants of the builtins, used to test the properties below.     *)
(***************************************************************************)
\* hsla that rejects an argument count with no overload of its own.
hsla_arity(argv) ==
    IF Len(argv) = 1
    THEN Branch(<<Chk(1, "Color")>>, argv, HslOf(Arg(argv, 1)))
    ELSE IF Len(argv) # Params
    THEN [log |-> <<>>, out |-> [kind |-> "UnsupportedArity"]]
    ELSE Branch(AllUnits, argv,
                HSLA(Arg(argv, 1).val, Arg(argv, 2).val, Arg(argv, 3).val, Arg(argv, 4).val))

\* hsla whose one-argument form uses the relaxed assertion and passes an HSLA through.
hsla_anycolor(argv) ==
    IF Len(argv) = 1
    THEN Branch(<<Chk(1, "Color|HSLA")>>, argv,
                IF Arg(argv, 1).kind = "HSLA" THEN Arg(argv, 1) ELSE HslOf(Arg(argv, 1)))
    ELSE Branch(AllUnits, argv,
                HSLA(Arg(argv, 1).val, Arg(argv, 2).val, Arg(argv, 3).val, Arg(argv, 4).val))

\* rgb(color) that keeps the alpha of its argument.
rgb_keepalpha(argv) ==
    IF Len(argv) = 1
    THEN Branch(<<Chk(1, "Color|HSLA")>>, argv,
                LET color == RgbaOf(Arg(argv, 1))
                IN Color(color.r, color.g, color.b, color.a))
    ELSE Branch(AllUnits, <<Arg(argv, 1), Arg(argv, 2), Arg(argv, 3), Unit(Fix(1), "")>>,
                Color(Arg(argv, 1).val, Arg(argv, 2).val, Arg(argv, 3).val, Fix(1)))

\* hsl(color) that returns an opaque projection, as rgb(color) does.
hsl_opaque(argv) ==
    IF Len(argv) > 1
    THEN Branch(AllUnits, <<Arg(argv, 1), Arg(argv, 2), Arg(argv, 3), Unit(Fix(1), "")>>,
                HSLA(Arg(argv, 1).val, Arg(argv, 2).val, Arg(argv, 3).val, Fix(1)))
    ELSE Branch(<<Chk(1, "Color")>>, argv,
                LET c == HslOf(Arg(argv, 1)) IN HSLA(c.h, c.s, c.l, Fix(1)))

\* hue that accepts any colour and reads the hue of its HSL projection.
hue_anycolor(argv) ==
    Branch(<<Chk(1, "Color|HSLA")>>, argv,
           Unit(Round(IF Arg(argv, 1).kind = "HSLA" THEN Arg(argv, 1).h
                      ELSE HslOf(Arg(argv, 1)).h), "deg"))

\* red that requires the exact Color variant.
red_rgbonly(argv) ==
    Branch(<<Chk(1, "Color")>>, argv, Unit(Arg(argv, 1).r, ""))

\* rgba whose two-argument form keeps the alpha of the colour.
rgba_keepalpha(argv) ==
    IF Len(argv) = 1
    THEN Branch(<<Chk(1, "Color|HSLA")>>, argv,
                LET color == RgbaOf(Arg(argv, 1))
                IN Color(color.r, color.g, color.b, color.a))
    ELSE IF Len(argv) = 2
    THEN Branch(<<Chk(1, "Color|HSLA"), Chk(2, "Unit")>>, argv,
                LET color == RgbaOf(Arg(argv, 1))
                IN Color(color.r, color.g, color.b, color.a))
    ELSE Branch(AllUnits, argv,
                Color(Arg(argv, 1).val, Arg(argv, 2).val, Arg(argv, 3).val, Arg(argv, 4).val))

\* rgba whose four-argument form clamps alpha to [0, 1].
rgba_clamp(argv) ==
    IF Len(argv) = 1
    THEN Branch(<<Chk(1, "Color|HSLA")>>, argv,
                LET color == RgbaOf(Arg(argv, 1))
                IN Color(color.r, color.g, color.b, color.a))
    ELSE IF Len(argv) = 2
    THEN Branch(<<Chk(1, "Color|HSLA"), Chk(2, "Unit")>>, argv,
                LET color == RgbaOf(Arg(argv, 1))
                IN Color(color.r, color.g, color.b, Arg(argv, 2).val))
    ELSE Branch(AllUnits, argv,
                Color(Arg(argv, 1).val, Arg(argv, 2).val, Arg(argv, 3).val,
                      Max2(0, Min2(Fix(1), Arg(argv, 4).val))))

\* rgba whose two-argument form asserts the alpha before the colour.
rgba_alphafirst(argv) ==
    IF Len(argv) = 1
    THEN Branch(<<Chk(1, "Color|HSLA")>>, argv,
                LET color == RgbaOf(Arg(argv, 1))
                IN Color(color.r, color.g, color.b, color.a))
    ELSE IF Len(argv) = 2
    THEN Branch(<<Chk(2, "Unit"), Chk(1, "Color|HSLA")>>, argv,
                LET color == RgbaOf(Arg(argv, 1))
                IN Color(color.r, color.g, color.b, Arg(argv, 2).val))
    ELSE Branch(AllUnits, argv,
                Color(Arg(argv, 1).val, Arg(argv, 2).val, Arg(argv, 3).val, Arg(argv, 4).val))

\* rgb whose three-argument form builds the colour without asserting the blue channel.
rgb_unchecked(argv) ==
    IF Len(argv) = 1
    THEN Branch(<<Chk(1, "Color|HSLA")>>, argv,
                LET color == RgbaOf(Arg(argv, 1))
                IN Color(color.r, color.g, color.b, Fix(1)))
    ELSE Branch(<<Chk(1, "Unit"), Chk(2, "Unit")>>, argv,
                Color(Arg(argv, 1).val, Arg(argv, 2).val,
                      IF Arg(argv, 3).kind = "Unit" THEN Arg(argv, 3).val ELSE 0, Fix(1)))

(***************************************************************************)
(* The builtins.  argv is the sequence of arguments of the call.           *)
(***************************************************************************)
hsla(argv) ==
    IF Len(argv) = 1
    THEN Branch(<<Chk(1, "Color")>>, argv, HslOf(Arg(argv, 1)))
    ELSE Branch(AllUnits, argv,
                HSLA(Arg(argv, 1).val, Arg(argv, 2).val, Arg(argv, 3).val, Arg(argv, 4).val))

hsl(argv) ==
    IF Len(argv) > 1
    THEN hsla(<<Arg(argv, 1), Arg(argv, 2), Arg(argv, 3), Unit(Fix(1), "")>>)
    ELSE Branch(<<Chk(1, "Color")>>, argv, HslOf(Arg(argv, 1)))

\* node.constructor.name.toLowerCase(); reading it off undefined throws.
type(argv) ==
    IF Arg(argv, 1) = Undefined
    THEN [log |-> <<>>, out |-> [kind |-> "NativeError"]]
    ELSE [log |-> <<>>,
          out |-> Returned(String(CASE Arg(argv, 1).kind = "Unit" -> "unit"
                                    [] Arg(argv, 1).kind = "Color" -> "color"
                                    [] Arg(argv, 1).kind = "HSLA" -> "hsla"
                                    [] OTHER -> "string"))]

hue(argv) ==
    Branch(<<Chk(1, "HSLA")>>, argv, Unit(Round(Arg(argv, 1).h), "deg"))

saturation(argv) ==
    Branch(<<Chk(1, "HSLA")>>, argv, Unit(Round(Arg(argv, 1).s), "%"))

lightness(argv) ==
    Branch(<<Chk(1, "HSLA")>>, argv, Unit(Round(Arg(argv, 1).l), "%"))

alpha(argv) ==
    Branch(<<Chk(1, "Color|HSLA")>>, argv, Unit(RgbaOf(Arg(argv, 1)).a, ""))

red(argv) ==
    Branch(<<Chk(1, "Color|HSLA")>>, argv, Unit(RgbaOf(Arg(argv, 1)).r, ""))

green(argv) ==
    Branch(<<Chk(1, "Color|HSLA")>>, argv, Unit(RgbaOf(Arg(argv, 1)).g, ""))

blue(argv) ==
    Branch(<<Chk(1, "Color|HSLA")>>, argv, Unit(RgbaOf(Arg(argv, 1)).b, ""))

rgba(argv) ==
    IF Len(argv) = 1
    THEN Branch(<<Chk(1, "Color|HSLA")>>, argv,
                LET color == RgbaOf(Arg(argv, 1))
                IN Color(color.r, color.g, color.b, color.a))
    ELSE IF Len(argv) = 2
    THEN Branch(<<Chk(1, "Color|HSLA"), Chk(2, "Unit")>>, argv,
                LET color == RgbaOf(Arg(argv, 1))
                IN Color(color.r, color.g, color.b, Arg(argv, 2).val))
    ELSE Branch(AllUnits, argv,
                Color(Arg(argv, 1).val, Arg(argv, 2).val, Arg(argv, 3).val, Arg(argv, 4).val))

rgb(argv) ==
    IF Len(argv) = 1
    THEN Branch(<<Chk(1, "Color|HSLA")>>, argv,
                LET color == RgbaOf(Arg(argv, 1))
                IN Color(color.r, color.g, color.b, Fix(1)))
    ELSE rgba(<<Arg(argv, 1), Arg(argv, 2), Arg(argv, 3), Unit(Fix(1), "")>>)

(***************************************************************************)
(* The evaluator's side of the call boundary.                              *)
(***************************************************************************)
\* Literal operands of an expression.
Literals == {Unit(Fix(100), "%"), Unit(Denom \div 2, ""), String("auto")}

\* Operands: the literals and the colour the last successful call returned.
Pool(c) == Literals \cup {c}

\* Argument lists of at most n operands.
ArgListsUpTo(c, n) == UNION {[1..k -> Pool(c)] : k \in 0..n}

\* Argument lists handed to the constructors and to the one-parameter builtins.
ArgLists(c) == ArgListsUpTo(c, Params)
ShortArgLists(c) == ArgListsUpTo(c, 2)

NoResult == [kind |-> "none"]

Init ==
    /\ pc = "idle"
    /\ fn = "none"
    /\ args = <<>>
    /\ log = <<>>
    /\ result = NoResult
    /\ acc = Color(Fix(255), Fix(255), Fix(255), Fix(1))
    /\ chain = 0

\* The evaluator calls table entry name with argv and receives its outcome.
Invoke(name, argv, outcome) ==
    /\ pc = "idle"
    /\ pc' = "called"
    /\ fn' = name
    /\ args' = argv
    /\ log' = outcome.log
    /\ result' = outcome.out
    /\ UNCHANGED <<acc, chain>>

Call_hsla == \E argv \in ArgLists(acc) : Invoke("hsla", argv, hsla(argv))
Call_hsl == \E argv \in ArgLists(acc) : Invoke("hsl", argv, hsl(argv))
Call_rgba == \E argv \in ArgLists(acc) : Invoke("rgba", argv, rgba(argv))
Call_rgb == \E argv \in ArgLists(acc) : Invoke("rgb", argv, rgb(argv))
Call_type == \E argv \in ShortArgLists(acc) : Invoke("type", argv, type(argv))
Call_hue == \E argv \in ShortArgLists(acc) : Invoke("hue", argv, hue(argv))
Call_saturation == \E argv \in ShortArgLists(acc) : Invoke("saturation", argv, saturation(argv))
Call_lightness == \E argv \in ShortArgLists(acc) : Invoke("lightness", argv, lightness(argv))
Call_alpha == \E argv \in ShortArgLists(acc) : Invoke("alpha", argv, alpha(argv))
Call_red == \E argv \in ShortArgLists(acc) : Invoke("red", argv, red(argv))
Call_green == \E argv \in ShortArgLists(acc) : Invoke("green", argv, green(argv))
Call_blue == \E argv \in ShortArgLists(acc) : Invoke("blue", argv, blue(argv))

\* The outcome is consumed: a returned colour becomes an operand of later calls.
Consume ==
    /\ pc = "called"
    /\ pc' = "idle"
    /\ fn' = "none"
    /\ args' = <<>>
    /\ log' = <<>>
    /\ result' = NoResult
    /\ IF result.kind = "node" /\ result.node.kind \in ColorLike /\ chain < MaxChain
       THEN acc' = result.node /\ chain' = chain + 1
       ELSE UNCHANGED <<acc, chain>>

Next ==
    \/ Call_hsla
    \/ Call_hsl
    \/ Call_type
    \/ Call_hue
    \/ Call_saturation
    \/ Call_lightness
    \/ Call_alpha
    \/ Call_red
    \/ Call_green
    \/ Call_blue
    \/ Call_rgba
    \/ Call_rgb
    \/ Consume

Spec == Init /\ [][Next]_vars

(***************************************************************************)
(* Properties                                                              *)
(***************************************************************************)
Constructors == {"hsla", "hsl", "rgba", "rgb"}
OneParameter == {"type", "hue", "saturation", "lightness", "alpha", "red", "green", "blue"}

\* The i-th parameter of the call in progress.
Param(i) == IF i <= Len(args) THEN args[i] ELSE [kind |-> "undefined"]

Least(S) == CHOOSE i \in S : \A j \in S : i <= j

\* The argument counts for which the documentation defines an overload.
Overloads(name) ==
    CASE name = "rgba" -> {1, 2, 4}
      [] name = "hsla" -> {1, 4}
      [] name \in {"hsl", "rgb"} -> {1, 3}
      [] OTHER -> {1}

\* What a one-parameter builtin asserts of its argument.
Accepted(name) ==
    CASE name \in {"hue", "saturation", "lightness"} -> {"HSLA"}
      [] name \in {"alpha", "red", "green", "blue"} -> {"Color", "HSLA"}
      [] OTHER -> {"Unit", "Color", "HSLA", "String"}

NoOverloadCall == pc = "called" /\ Len(args) \notin Overloads(fn)

Numeric(i) ==
    IF i = 4 /\ fn \in {"hsl", "rgb"} THEN [kind |-> "Unit", val |-> Denom, type |-> ""]
    ELSE IF i = 4 \/ fn \in {"hsla", "rgba"} \/ i <= 3 THEN Param(i)
    ELSE [kind |-> "undefined"]

NotNumeric == {i \in 1..4 : Numeric(i).kind # "Unit"}

OneColorCall == pc = "called" /\ fn \in {"hsla", "hsl"} /\ Len(args) = 1

\* C2 as stated: hsla(color) and hsl(color) accept an RGBColor and an HSLColor
\* alike and fail with TypeMismatch on every other variant.
C2_AcceptsColorLike ==
    OneColorCall =>
        IF args[1].kind \in {"Color", "HSLA"}
        THEN result.kind = "node" /\ result.node.kind = "HSLA"
        ELSE result.kind = "TypeMismatch"

\* C2 amended: hsla(color) and hsl(color) require the exact RGBColor variant:
\* an RGBColor yields its HSL projection, and every other variant, an HSLColor
\* included, fails with a TypeMismatch that expects Color.
C2_RequiresRgbColor ==
    OneColorCall =>
        IF args[1].kind = "Color"
        THEN result = [kind |-> "node", node |-> ColorHsl(args[1])]
        ELSE result = [kind |-> "TypeMismatch", pos |-> 1,
                       expected |-> "Color", actual |-> args[1].kind]

\* hsl and hsla have each been called on an HSLColor that an earlier call returned.
C2_Witness ==
    /\ OneColorCall /\ fn = "hsla"
    /\ args[1].kind = "HSLA" /\ args[1] = acc /\ chain > 0
    /\ result.kind = "TypeMismatch" /\ result.actual = "HSLA"

\* The RGB channels a colour-like node projects to.
Channels(c) ==
    IF c.kind = "Color" THEN <<c.r, c.g, c.b>>
    ELSE LET p == HslaRgba(c) IN <<p.r, p.g, p.b>>

\* C3: rgb(color) returns an RGBColor with the channels of the argument's RGB
\* projection and alpha exactly 1, whatever the argument's alpha and however
\* the argument was produced.
C3_RgbForcesOpaque ==
    (pc = "called" /\ fn = "rgb" /\ Len(args) = 1 /\ args[1].kind \in {"Color", "HSLA"}) =>
        /\ result.kind = "node"
        /\ result.node.kind = "Color"
        /\ result.node.a = Denom
        /\ <<result.node.r, result.node.g, result.node.b>> = Channels(args[1])

\* rgb has been applied to a translucent HSLColor that an earlier call returned.
C3_Witness ==
    /\ pc = "called" /\ fn = "rgb" /\ Len(args) = 1
    /\ args[1] = acc /\ chain > 0 /\ acc.kind = "HSLA" /\ acc.a < Denom
    /\ result.kind = "node" /\ result.node.a = Denom

ConversionCall ==
    pc = "called" /\ fn \in {"hsl", "hsla", "rgba"} /\ Len(args) = 1

\* The alphas a constructor call may hand out: that of a colour argument, the
\* magnitude of an alpha argument, and the default 1.
SuppliedAlphas ==
    (IF Param(1).kind \in {"Color", "HSLA"} THEN {Param(1).a} ELSE {})
    \cup {Param(i).val : i \in {j \in {2, 4} : j = Len(args) /\ Param(j).kind = "Unit"}}
    \cup {Denom}

\* C4 as stated: hsl(c), hsla(c) and rgba(c) return, for every colour c, a
\* colour with the alpha of c.
C4_EveryColorConverts ==
    (ConversionCall /\ args[1].kind \in {"Color", "HSLA"}) =>
        result.kind = "node" /\ result.node.a = args[1].a

\* C4 amended: hsl(c) and hsla(c) for every RGBColor c, and rgba(c) for every
\* colour-like c, return a colour with the alpha of c (hsl and hsla reject an
\* HSLColor); and a constructor never yields an alpha other than that of its
\* colour argument, the magnitude of its alpha argument, or the default 1.
C4_AlphaPreserved ==
    /\ (ConversionCall /\ (args[1].kind = "Color" \/ (fn = "rgba" /\ args[1].kind = "HSLA"))) =>
           result.kind = "node" /\ result.node.a = args[1].a
    /\ (ConversionCall /\ result.kind = "node") => result.node.a = args[1].a
    /\ (pc = "called" /\ fn \in Constructors /\ result.kind = "node") =>
           result.node.a \in SuppliedAlphas

\* hsl has converted a translucent RGBColor that an earlier call returned.
C4_Witness ==
    /\ ConversionCall /\ fn = "hsl"
    /\ args[1] = acc /\ chain > 0 /\ acc.kind = "Color" /\ acc.a # Denom
    /\ result.kind = "node" /\ result.node.kind = "HSLA" /\ result.node.a = acc.a

\* v is x rounded to the nearest integer.
Nearest(v, x) == v % Denom = 0 /\ 2 * (v - x) <= Denom /\ 2 * (x - v) <= Denom

\* C5: hue, saturation and lightness require the exact HSLColor variant: on an
\* RGBColor or any other node they fail with TypeMismatch, on an HSLColor they
\* return the component rounded to the nearest integer, tagged deg or %.
C5_HslAccessorsExact ==
    (pc = "called" /\ fn \in {"hue", "saturation", "lightness"} /\ Len(args) >= 1) =>
        IF args[1].kind = "HSLA"
        THEN /\ result.kind = "node"
             /\ result.node.kind = "Unit"
             /\ result.node.type = (IF fn = "hue" THEN "deg" ELSE "%")
             /\ Nearest(result.node.val,
                        CASE fn = "hue" -> args[1].h
                          [] fn = "saturation" -> args[1].s
                          [] OTHER -> args[1].l)
        ELSE result = [kind |-> "TypeMismatch", pos |-> 1,
                       expected |-> "HSLA", actual |-> args[1].kind]

\* hue has failed on an RGBColor that an earlier call returned.
C5_Witness ==
    /\ pc = "called" /\ fn = "hue" /\ Len(args) = 1
    /\ args[1].kind = "Color" /\ args[1] = acc /\ chain > 0
    /\ result.kind = "TypeMismatch" /\ result.expected = "HSLA"

\* C6: alpha, red, green and blue accept an RGBColor and an HSLColor alike and
\* return a unitless NumericValue holding that component of the RGB projection
\* (alpha: the argument's alpha, not rounded); any other variant fails with
\* TypeMismatch.
C6_RgbAccessors ==
    (pc = "called" /\ fn \in {"alpha", "red", "green", "blue"} /\ Len(args) >= 1) =>
        IF args[1].kind \in {"Color", "HSLA"}
        THEN /\ result.kind = "node"
             /\ result.node.kind = "Unit"
             /\ result.node.type = ""
             /\ result.node.val = (CASE fn = "alpha" -> args[1].a
                                     [] fn = "red" -> Channels(args[1])[1]
                                     [] fn = "green" -> Channels(args[1])[2]
                                     [] OTHER -> Channels(args[1])[3])
        ELSE result.kind = "TypeMismatch" /\ result.actual = args[1].kind

\* red has read a non-zero channel off a translucent HSLColor.
C6_Witness ==
    /\ pc = "called" /\ fn = "red" /\ Len(args) = 1
    /\ args[1].kind = "HSLA" /\ args[1].a % Denom # 0
    /\ result.kind = "node" /\ result.node.val > 0

\* The outcome rgba(color, a) must have.
RgbaOverride(c, a) ==
    IF c.kind \notin {"Color", "HSLA"}
    THEN [kind |-> "TypeMismatch", pos |-> 1, expected |-> "Color|HSLA", actual |-> c.kind]
    ELSE IF a.kind # "Unit"
    THEN [kind |-> "TypeMismatch", pos |-> 2, expected |-> "Unit", actual |-> a.kind]
    ELSE [kind |-> "node",
          node |-> [kind |-> "Color", r |-> Channels(c)[1], g |-> Channels(c)[2],
                    b |-> Channels(c)[3], a |-> a.val]]

\* C7: rgba(color, a) returns a new RGBColor with the channels of color's RGB
\* projection and the magnitude of a as alpha, fails with TypeMismatch when
\* color is not colour-like or a is not a NumericValue, and leaves the colour
\* it was given as it was.
C7_RgbaOverridesAlpha ==
    [][(pc = "idle" /\ fn' = "rgba" /\ Len(args') = 2) =>
          /\ result' = RgbaOverride(args'[1], args'[2])
          /\ args'[1] \in Literals \cup {acc}
          /\ acc' = acc]_vars

\* rgba has replaced the alpha of a colour an earlier call returned by another.
C7_Witness ==
    /\ pc = "called" /\ fn = "rgba" /\ Len(args) = 2
    /\ args[1] = acc /\ chain > 0 /\ acc.kind = "HSLA"
    /\ args[2].kind = "Unit" /\ args[2].val # acc.a
    /\ result.kind = "node" /\ result.node.a = args[2].val

\* C8: rgba(r, g, b, a) and hsla(h, s, l, a) never coerce: one argument that is
\* not a NumericValue makes the call fail with a TypeMismatch that expects
\* NumericValue, and four NumericValues give a colour whose fields are their
\* magnitudes, unit tags ignored and nothing clamped.
C8_FourNumericNoCoercion ==
    (pc = "called" /\ fn \in {"rgba", "hsla"} /\ Len(args) = 4) =>
        IF \A i \in 1..4 : args[i].kind = "Unit"
        THEN /\ result.kind = "node"
             /\ result.node.kind = (IF fn = "rgba" THEN "Color" ELSE "HSLA")
             /\ result.node.a = args[4].val
             /\ IF fn = "rgba"
                THEN <<result.node.r, result.node.g, result.node.b>>
                       = <<args[1].val, args[2].val, args[3].val>>
                ELSE <<result.node.h, result.node.s, result.node.l>>
                       = <<args[1].val, args[2].val, args[3].val>>
        ELSE /\ result.kind = "TypeMismatch"
             /\ result.expected = "Unit"
             /\ args[result.pos].kind # "Unit"
             /\ result.actual = args[result.pos].kind

\* rgba has taken a percentage above 1 as alpha and a fraction as red.
C8_Witness ==
    /\ pc = "called" /\ fn = "rgba" /\ Len(args) = 4
    /\ \A i \in 1..4 : args[i].kind = "Unit"
    /\ args[4].type = "%" /\ args[4].val > Denom /\ args[1].val % Denom # 0
    /\ result.kind = "node" /\ result.node.a = args[4].val

\* The outcome of the four-NumericValue form on r, g, b and an alpha of 1.
OpaqueOf(name, x, y, z) ==
    LET bad == {i \in 1..3 : <<x, y, z>>[i].kind # "Unit"}
    IN IF bad # {}
       THEN [kind |-> "TypeMismatch", pos |-> Least(bad), expected |-> "Unit",
             actual |-> <<x, y, z>>[Least(bad)].kind]
       ELSE [kind |-> "node",
             node |-> IF name = "rgb"
                      THEN [kind |-> "Color", r |-> x.val, g |-> y.val, b |-> z.val, a |-> Denom]
                      ELSE [kind |-> "HSLA", h |-> x.val, s |-> y.val, l |-> z.val, a |-> Denom]]

\* C9: rgb(r, g, b) has the outcome of rgba(r, g, b, NumericValue(1)) and
\* hsl(h, s, l) that of hsla(h, s, l, NumericValue(1)): the same colour, of
\* alpha 1, or the same failure.
C9_ThreeArgsAreOpaqueFour ==
    (pc = "called" /\ fn \in {"rgb", "hsl"} /\ Len(args) = 3) =>
        LET one == [kind |-> "Unit", val |-> Denom, type |-> ""]
            four == <<args[1], args[2], args[3], one>>
        IN /\ result = (IF fn = "rgb" THEN rgba(four).out ELSE hsla(four).out)
           /\ result = OpaqueOf(fn, args[1], args[2], args[3])
           /\ result.kind = "node" => result.node.a = Denom

\* rgb has built an opaque colour from three NumericValues of different magnitudes.
C9_Witness ==
    /\ pc = "called" /\ fn = "rgb" /\ Len(args) = 3
    /\ \A i \in 1..3 : args[i].kind = "Unit"
    /\ args[1] # args[2]
    /\ result.kind = "node" /\ result.node.a = Denom /\ result.node.r = args[1].val

\* The parameters a branch of rgba or hsla asserts, and what it requires of each.
Asserted(name, n) ==
    IF n = 1 THEN {1} ELSE IF n = 2 /\ name = "rgba" THEN {1, 2} ELSE 1..4

Required(name, n, i) ==
    IF n = 1 THEN (IF name = "rgba" THEN {"Color", "HSLA"} ELSE {"Color"})
    ELSE IF n = 2 /\ name = "rgba" /\ i = 1 THEN {"Color", "HSLA"}
    ELSE {"Unit"}

Violating == {i \in Asserted(fn, Len(args)) : Param(i).kind \notin Required(fn, Len(args), i)}

\* C10: once the arity branch of rgba or hsla is chosen its assertions run left
\* to right and the first failure ends the call: the failure reported is that
\* of the leftmost violating argument, no assertion runs after it, and a node
\* is returned only after every assertion of the branch has passed.
C10_LeftmostFailure ==
    (pc = "called" /\ fn \in {"rgba", "hsla"}) =>
        /\ \A k \in 1..Len(log) : log[k].pos = k
        /\ IF Violating = {}
           THEN /\ result.kind = "node"
                /\ Len(log) = Cardinality(Asserted(fn, Len(args)))
           ELSE /\ result.kind = "TypeMismatch"
                /\ result.pos = Least(Violating)
                /\ result.actual = Param(Least(Violating)).kind
                /\ Len(log) = Least(Violating)

\* rgba(color, a) has reported its non-colour first argument although its
\* second is not a NumericValue either.
C10_Witness ==
    /\ pc = "called" /\ fn = "rgba" /\ Len(args) = 2
    /\ args[1].kind = "String" /\ args[2].kind = "HSLA"
    /\ result.kind = "TypeMismatch" /\ result.pos = 1 /\ result.actual = "String"
    /\ Len(log) = 1

====
